---- MODULE Spec2Model ----
(***************************************************************************)
(* Gauge watchers of faucet (faucet/watcher.py): the watcher factory, the  *)
(* port state logger, the meter stats logger and the flow table logger,    *)
(* with the files they append to and the process log they write.           *)
(*                                                                         *)
(* Text is modelled by TLA+ strings: "%s" formatting is ToString, join and *)
(* "+" are \o, and a file is the string of the bytes it holds.             *)
(***************************************************************************)
EXTENDS Integers, Sequences, FiniteSets, TLC

VARIABLES
    gconf,      \* watcher_factory: the GaugeConf passed (type, db_type)
    fret,       \* watcher_factory: the class returned, or Unset / None
    fexc,       \* watcher_factory: the exception raised, or NoExc
    mstat,      \* meter logger: the OFPMeterStats passed to _format_stat_pairs
    mdelim,     \* meter logger: the delimiter passed to _format_stat_pairs
    mcall,      \* meter logger: the calls made to _format_stats, in order
    mexc,       \* meter logger: the exception raised, or NoExc
    conf,       \* sink -> its watcher conf and datapath (type, file, compress, dp_id, dp_name)
    pc,         \* sink -> position of its _update call
    cur,        \* sink -> locals of the running _update call
    handle,     \* sink -> the file object its running call holds, or NoHandle
    raised,     \* sink -> what its last _update call raised to the caller
    fault,      \* sink -> the I/O operation of its current/last call that failed, or ""
    fs,         \* path -> content of the file
    fs0,        \* path -> content of the file before the first call
    log,        \* the process log: the messages given to logger.info, in order
    calls       \* every _update call made so far, in order, with its outcome

factoryVars == <<gconf, fret, fexc>>
meterVars   == <<mstat, mdelim, mcall, mexc>>
sinkVars    == <<conf, pc, cur, handle, raised, fault, fs, fs0, log, calls>>
vars        == <<gconf, fret, fexc, mstat, mdelim, mcall, mexc,
                 conf, pc, cur, handle, raised, fault, fs, fs0, log, calls>>

Unset == "<unset>"
None  == "None"
NoExc == [cls |-> "None", msg |-> ""]

(***************************************************************************)
(* Variables a specification does not use keep these values.               *)
(***************************************************************************)
FactoryIdle ==
    /\ gconf = [type |-> None, db_type |-> None]
    /\ fret = Unset
    /\ fexc = NoExc

MeterIdle ==
    /\ mstat = [flow_count |-> 0, byte_in_count |-> 0, packet_in_count |-> 0,
                band_stats |-> <<>>]
    /\ mdelim = ""
    /\ mcall = <<>>
    /\ mexc = NoExc

SinksIdle ==
    /\ conf = <<>>
    /\ pc = <<>>
    /\ cur = <<>>
    /\ handle = <<>>
    /\ raised = <<>>
    /\ fault = <<>>
    /\ fs = <<>>
    /\ fs0 = <<>>
    /\ log = <<>>
    /\ calls = <<>>

(***************************************************************************)
(* watcher_factory                                                         *)
(***************************************************************************)
ReportKinds  == {"port_state", "port_stats", "flow_table", "meter_stats"}
BackendKinds == {"text", "influx", "prometheus"}

\* conf.type and conf.db_type are free strings of the configuration file: the
\* known kinds, the kinds of the other dimension, misspelt or empty ones, and
\* None for a key the configuration leaves out.
ConfTypes   == ReportKinds \cup BackendKinds \cup {"", "meter_stat", None}
ConfDbTypes == BackendKinds \cup ReportKinds \cup {"", "influxdb", None}

WATCHER_TYPES ==
    [w \in ReportKinds |->
        CASE w = "port_state" ->
                [d \in BackendKinds |->
                    CASE d = "text" -> "GaugePortStateLogger"
                      [] d = "influx" -> "GaugePortStateInfluxDBLogger"
                      [] d = "prometheus" -> "GaugePortStatePrometheusPoller"]
          [] w = "port_stats" ->
                [d \in BackendKinds |->
                    CASE d = "text" -> "GaugePortStatsLogger"
                      [] d = "influx" -> "GaugePortStatsInfluxDBLogger"
                      [] d = "prometheus" -> "GaugePortStatsPrometheusPoller"]
          [] w = "flow_table" ->
                [d \in BackendKinds |->
                    CASE d = "text" -> "GaugeFlowTableLogger"
                      [] d = "influx" -> "GaugeFlowTableInfluxDBLogger"
                      [] d = "prometheus" -> "GaugeFlowTablePrometheusPoller"]
          [] w = "meter_stats" ->
                [d \in {"text", "prometheus"} |->
                    CASE d = "text" -> "GaugeMeterStatsLogger"
                      [] d = "prometheus" -> "GaugeMeterStatsPrometheusPoller"]]

\* WATCHER_TYPES[w_type][db_type] raises KeyError when either key is absent.
HasKey(w_type, db_type) ==
    /\ w_type \in DOMAIN WATCHER_TYPES
    /\ db_type \in DOMAIN WATCHER_TYPES[w_type]

\* Mutant: the KeyError of the lookup escapes, carrying the missing key.
LookupFailure_KeyError(w_type, db_type) ==
    [cls |-> "KeyError",
     msg |-> IF w_type \in DOMAIN WATCHER_TYPES THEN db_type ELSE w_type]

\* except KeyError: raise InvalidConfigError('invalid water config')
LookupFailure(w_type, db_type) ==
    [cls |-> "InvalidConfigError", msg |-> "invalid water config"]

\* Mutant: a copy-paste slip in the table, meter_stats/text naming the port stats class.
Lookup_CopyPaste(w_type, db_type) ==
    IF w_type = "meter_stats" /\ db_type = "text"
    THEN WATCHER_TYPES["port_stats"]["text"]
    ELSE WATCHER_TYPES[w_type][db_type]

\* return WATCHER_TYPES[w_type][db_type]
Lookup(w_type, db_type) == WATCHER_TYPES[w_type][db_type]

watcher_factory ==
    /\ fret = Unset
    /\ LET w_type == gconf.type
           db_type == gconf.db_type
       IN IF HasKey(w_type, db_type)
          THEN /\ fret' = Lookup(w_type, db_type)
               /\ fexc' = NoExc
          ELSE /\ fret' = None
               /\ fexc' = LookupFailure(w_type, db_type)
    /\ UNCHANGED <<gconf, meterVars, sinkVars>>

InitFactory ==
    /\ gconf \in [type : ConfTypes, db_type : ConfDbTypes]
    /\ fret = Unset
    /\ fexc = NoExc
    /\ MeterIdle
    /\ SinksIdle

NextFactory == watcher_factory

SpecFactory == InitFactory /\ [][NextFactory]_vars

(***************************************************************************)
(* GaugeMeterStatsLogger._format_stat_pairs                                *)
(***************************************************************************)
MaxBands == 2

CounterValues == {5, 100}
Delims == {",", "-"}

BandStats == [byte_band_count : CounterValues, packet_band_count : CounterValues]

RECURSIVE SeqsUpTo(_, _)
SeqsUpTo(S, n) ==
    IF n = 0 THEN {<<>>}
    ELSE LET shorter == SeqsUpTo(S, n - 1)
         IN shorter \cup {Append(q, x) : q \in {r \in shorter : Len(r) = n - 1}, x \in S}

MeterStats ==
    [flow_count : CounterValues, byte_in_count : CounterValues,
     packet_in_count : CounterValues, band_stats : SeqsUpTo(BandStats, MaxBands)]

\* Mutant: the last band is read instead of the first (band_stats[-1]).
FirstBand_Last(stat) == stat.band_stats[Len(stat.band_stats)]

\* band_stats = stat.band_stats[0]
FirstBand(stat) == stat.band_stats[1]

\* The stat_pairs tuple built from the stat, in the order of the source.
StatPairs(stat) ==
    LET band_stats == FirstBand(stat)
    IN << [key |-> <<"flow", "count">>,           val |-> stat.flow_count],
          [key |-> <<"byte", "in", "count">>,     val |-> stat.byte_in_count],
          [key |-> <<"packet", "in", "count">>,   val |-> stat.packet_in_count],
          [key |-> <<"byte", "band", "count">>,   val |-> band_stats.byte_band_count],
          [key |-> <<"packet", "band", "count">>, val |-> band_stats.packet_band_count] >>

\* _format_stat_pairs(delim, stat): an empty band_stats raises IndexError,
\* otherwise self._format_stats(delim, stat_pairs) is called.
GaugeMeterStatsLogger_format_stat_pairs ==
    /\ mcall = <<>>
    /\ mexc = NoExc
    /\ IF Len(mstat.band_stats) = 0
       THEN /\ mexc' = [cls |-> "IndexError", msg |-> "list index out of range"]
            /\ mcall' = mcall
       ELSE /\ mcall' = <<[delim |-> mdelim, stat_pairs |-> StatPairs(mstat)]>>
            /\ mexc' = mexc
    /\ UNCHANGED <<mstat, mdelim, factoryVars, sinkVars>>

InitMeter ==
    /\ mstat \in MeterStats
    /\ mdelim \in Delims
    /\ mcall = <<>>
    /\ mexc = NoExc
    /\ FactoryIdle
    /\ SinksIdle

NextMeter == GaugeMeterStatsLogger_format_stat_pairs

SpecMeter == InitMeter /\ [][NextMeter]_vars

(***************************************************************************)
(* Text helpers                                                            *)
(***************************************************************************)
\* '%x' % n
RECURSIVE Hex(_)
Hex(n) ==
    LET digit == SubSeq("0123456789abcdef", (n % 16) + 1, (n % 16) + 1)
    IN IF n < 16 THEN digit ELSE Hex(n \div 16) \o digit

\* dpid_log(dp_id): the datapath prefix of a log message, 'DPID %u (0x%x)'.
dpid_log(dp_id) == "DPID " \o ToString(dp_id) \o " (0x" \o Hex(dp_id) \o ")"

\* self._rcv_time(rcv_time): the timestamp rendered as '%b %d %H:%M:%S'
\* (UTC, for the first seconds of the epoch).
TwoDigits(n) == IF n < 10 THEN "0" \o ToString(n) ELSE ToString(n)
rcv_time_str(rcv_time) ==
    "Jan 01 00:" \o TwoDigits((rcv_time \div 60) % 60) \o ":" \o TwoDigits(rcv_time % 60)

RECURSIVE BitAnd(_, _)
BitAnd(a, b) ==
    IF a = 0 \/ b = 0 THEN 0
    ELSE (a % 2) * (b % 2) + 2 * BitAnd(a \div 2, b \div 2)

\* json.dumps of a str (ASCII without quotes or backslashes) and of the
\* three-key dict of the flow table logger, keys in insertion order.
JsonStr(str) == "\"" \o str \o "\""
JsonDumps(jsondict) ==
    "{" \o JsonStr("time") \o ": " \o JsonStr(jsondict.time)
        \o ", " \o JsonStr("ref") \o ": " \o JsonStr(jsondict.ref)
        \o ", " \o JsonStr("msg") \o ": " \o jsondict.msg \o "}"

(***************************************************************************)
(* gzip: a member is a header, the deflated data and a trailer holding the *)
(* length of the data. Deflate is modelled by run-length coding (a run is  *)
(* its length, 1..9, and its character; a length of 0 ends the stream).    *)
(***************************************************************************)
GzipHeader == "\\037\\213\\010"
MaxRun == 9
BlockLen == 16
IsizeDigits == 4

RECURSIVE RunLength(_, _)
RunLength(str, n) ==
    IF n < Len(str) /\ n < MaxRun /\ SubSeq(str, n + 1, n + 1) = SubSeq(str, 1, 1)
    THEN RunLength(str, n + 1)
    ELSE n

RECURSIVE DeflateRuns(_)
DeflateRuns(str) ==
    IF str = "" THEN ""
    ELSE LET n == RunLength(str, 1)
         IN ToString(n) \o SubSeq(str, 1, 1) \o DeflateRuns(SubSeq(str, n + 1, Len(str)))

\* The data is coded block by block; a run ends with its block.
RECURSIVE DeflateBlocks(_)
DeflateBlocks(str) ==
    IF Len(str) <= BlockLen THEN DeflateRuns(str)
    ELSE DeflateRuns(SubSeq(str, 1, BlockLen))
            \o DeflateBlocks(SubSeq(str, BlockLen + 1, Len(str)))

Deflate(str) == DeflateBlocks(str) \o "0"

RECURSIVE Pad(_, _)
Pad(str, width) == IF Len(str) >= width THEN str ELSE Pad("0" \o str, width)

GzipTrailer(size) == Pad(ToString(size % 10000), IsizeDigits)

IsDigit(c) == \E d \in 0..9 : ToString(d) = c
DigitVal(c) == CHOOSE d \in 0..9 : ToString(d) = c

RECURSIVE Repeat(_, _)
Repeat(c, n) == IF n = 0 THEN "" ELSE c \o Repeat(c, n - 1)

BadGzip == [ok |-> FALSE, data |-> "", rest |-> "", end |-> FALSE]

\* Inflate at most k runs at the head of str: the data, what follows it, and
\* whether the end of the stream was met.
RECURSIVE InflateRuns(_, _)
InflateRuns(str, k) ==
    IF k = 0 THEN [ok |-> TRUE, data |-> "", rest |-> str, end |-> FALSE]
    ELSE IF str = "" \/ ~IsDigit(SubSeq(str, 1, 1)) THEN BadGzip
    ELSE LET n == DigitVal(SubSeq(str, 1, 1))
         IN IF n = 0
            THEN [ok |-> TRUE, data |-> "", rest |-> SubSeq(str, 2, Len(str)), end |-> TRUE]
            ELSE IF Len(str) < 2 THEN BadGzip
            ELSE LET more == InflateRuns(SubSeq(str, 3, Len(str)), k - 1)
                 IN IF ~more.ok THEN BadGzip
                    ELSE [more EXCEPT !.data = Repeat(SubSeq(str, 2, 2), n) \o @]

\* Inflate one deflate stream at the head of str: the data and what follows it.
RECURSIVE Inflate(_)
Inflate(str) ==
    LET first == InflateRuns(str, BlockLen)
    IN IF ~first.ok \/ first.end THEN first
       ELSE LET more == Inflate(first.rest)
            IN IF ~more.ok THEN BadGzip
               ELSE [more EXCEPT !.data = first.data \o @]

\* gzip.open(path, 'rt').read(): the members of the file decompressed and joined;
\* ok is FALSE when the file is not a sequence of whole members.
RECURSIVE Gunzip(_)
Gunzip(file) ==
    IF file = "" THEN [ok |-> TRUE, data |-> "", rest |-> "", end |-> TRUE]
    ELSE IF Len(file) < Len(GzipHeader) \/ SubSeq(file, 1, Len(GzipHeader)) # GzipHeader
    THEN BadGzip
    ELSE LET body == Inflate(SubSeq(file, Len(GzipHeader) + 1, Len(file)))
         IN IF ~body.ok \/ Len(body.rest) < IsizeDigits THEN BadGzip
            ELSE LET isize == SubSeq(body.rest, 1, IsizeDigits)
                     more == Gunzip(SubSeq(body.rest, IsizeDigits + 1, Len(body.rest)))
                 IN IF isize # GzipTrailer(Len(body.data)) \/ ~more.ok THEN BadGzip
                    ELSE [more EXCEPT !.data = body.data \o @]

(***************************************************************************)
(* The sinks: state of a running _update call and the files.               *)
(*                                                                         *)
(* A call is a sequence of steps: the handler up to the with statement,    *)
(* the open, the write and the exit of the with block (the close, which    *)
(* flushes what the file object buffered). A file object buffers what is   *)
(* written to it and hands it to the file in one append when it is closed. *)
(* An I/O operation may fail; a failed operation leaves the bytes of the   *)
(* file as they were.                                                      *)
(***************************************************************************)
LogPath   == "gauge.log"
OtherPath == "other.log"
Paths     == {LogPath, OtherPath}

NoHandle == [open |-> FALSE, path |-> "", mode |-> "", gz |-> FALSE, buf |-> "", size |-> 0]
NoCur    == [idx |-> 0, data |-> ""]

OFPPR_ADD       == 0
OFPPR_DELETE    == 1
OFPPR_MODIFY    == 2
OFPPS_LINK_DOWN == 1

\* OFPPortStatus messages: reason, desc.port_no, desc.state (a bit field:
\* OFPPS_LINK_DOWN = 1, OFPPS_LIVE = 4).
Reasons    == {OFPPR_ADD, OFPPR_DELETE, OFPPR_MODIFY, 3}
PortNos    == {3, 7}
PortStates == {0, 1, 4, 5}
PortStatusMsgs == [reason : Reasons, desc : [port_no : PortNos, state : PortStates]]

\* OFPFlowStatsReply messages, each with the JSON text of its to_jsondict().
FlowStatsMsgs == {[jsondict |-> "{\"OFPFlowStatsReply\": {\"body\": []}}"],
                  [jsondict |-> "{\"OFPFlowStatsReply\": {\"body\": [{\"OFPFlowStats\": {}}]}}"]}

Sinks == DOMAIN conf

\* The clock of the poller: the receive time of the next call.
Now == Len(calls) + 1

\* Mutant: link_down tested by equality with the flag instead of by the bit.
link_down_Equals(state) == state = OFPPS_LINK_DOWN

\* link_down = (msg.desc.state & ofp.OFPPS_LINK_DOWN), then tested for truth
link_down(state) == BitAnd(state, OFPPS_LINK_DOWN) # 0

\* The log_msg of _update before the datapath prefix is put in front.
log_msg(reason, port_no, state) ==
    IF reason = OFPPR_ADD THEN "port " \o ToString(port_no) \o " added"
    ELSE IF reason = OFPPR_DELETE THEN "port " \o ToString(port_no) \o " deleted"
    ELSE IF reason = OFPPR_MODIFY
         THEN IF link_down(state)
              THEN "port " \o ToString(port_no) \o " down"
              ELSE "port " \o ToString(port_no) \o " up"
    ELSE "port " \o ToString(port_no) \o " unknown state " \o ToString(reason)

\* Mutant: the message is kept from the call before when the reason is unknown
\* (log_msg held on the object and only set in the known branches).
dp_log_msg_Kept(s, msg) ==
    IF msg.reason \notin {OFPPR_ADD, OFPPR_DELETE, OFPPR_MODIFY} /\ Len(log) > 0
    THEN log[Len(log)].msg
    ELSE dpid_log(conf[s].dp_id) \o " " \o log_msg(msg.reason, msg.desc.port_no, msg.desc.state)

\* log_msg = '%s %s' % (dpid_log(self.dp.dp_id), log_msg)
dp_log_msg(s, msg) ==
    dpid_log(conf[s].dp_id) \o " " \o log_msg(msg.reason, msg.desc.port_no, msg.desc.state)

\* '\t'.join((rcv_time_str, log_msg)) + '\n'
LogLine(time_str, message) == time_str \o "\t" \o message \o "\n"

\* self.logger.info(log_msg)
LoggerInfo(s, message) == Append(log, [sink |-> s, level |-> "info", msg |-> message])

\* The return of _update to its caller, with what it raised.
Return(s, exc) ==
    /\ pc' = [pc EXCEPT ![s] = "idle"]
    /\ cur' = [cur EXCEPT ![s] = NoCur]
    /\ raised' = [raised EXCEPT ![s] = exc]
    /\ calls' = [calls EXCEPT ![cur[s].idx].status = IF exc = None THEN "ok" ELSE "failed"]

\* Mutant: the message is not given to the logger when a file is configured.
GaugePortStateLogger_update_NoInfo(s, rcv_time, msg) ==
    /\ conf[s].type = "port_state"
    /\ pc[s] = "idle"
    /\ fault' = [fault EXCEPT ![s] = ""]
    /\ LET message == dp_log_msg(s, msg)
           call == [sink |-> s, rcv_time |-> rcv_time, msg |-> msg, status |-> "running"]
       IN IF conf[s].file # None
          THEN /\ log' = log
               /\ pc' = [pc EXCEPT ![s] = "open"]
               /\ cur' = [cur EXCEPT ![s] = [idx |-> Len(calls) + 1,
                                             data |-> LogLine(rcv_time_str(rcv_time), message)]]
               /\ raised' = [raised EXCEPT ![s] = None]
               /\ calls' = Append(calls, call)
          ELSE /\ log' = LoggerInfo(s, message)
               /\ pc' = pc
               /\ cur' = cur
               /\ raised' = [raised EXCEPT ![s] = None]
               /\ calls' = Append(calls, [call EXCEPT !.status = "ok"])
    /\ UNCHANGED <<conf, handle, fs, fs0, factoryVars, meterVars>>

\* GaugePortStateLogger._update up to "if self.conf.file:": the message is
\* rendered and logged; without a file the call returns.
GaugePortStateLogger_update(s, rcv_time, msg) ==
    /\ conf[s].type = "port_state"
    /\ pc[s] = "idle"
    /\ fault' = [fault EXCEPT ![s] = ""]
    /\ LET message == dp_log_msg(s, msg)
           call == [sink |-> s, rcv_time |-> rcv_time, msg |-> msg, status |-> "running"]
       IN /\ log' = LoggerInfo(s, message)
          /\ raised' = [raised EXCEPT ![s] = None]
          /\ IF conf[s].file # None
             THEN /\ pc' = [pc EXCEPT ![s] = "open"]
                  /\ cur' = [cur EXCEPT ![s] = [idx |-> Len(calls) + 1,
                                                data |-> LogLine(rcv_time_str(rcv_time), message)]]
                  /\ calls' = Append(calls, call)
             ELSE /\ pc' = pc
                  /\ cur' = cur
                  /\ calls' = Append(calls, [call EXCEPT !.status = "ok"])
    /\ UNCHANGED <<conf, handle, fs, fs0, factoryVars, meterVars>>

\* outstr = '---\n{}\n'.format(json.dumps(jsondict))
outstr(s, rcv_time, msg) ==
    "---\n" \o JsonDumps([time |-> rcv_time_str(rcv_time),
                          ref |-> conf[s].dp_name \o "-" \o "flowtables",
                          msg |-> msg.jsondict]) \o "\n"

\* GaugeFlowTableLogger._update up to "if self.conf.compress:".
GaugeFlowTableLogger_update(s, rcv_time, msg) ==
    /\ conf[s].type = "flow_table"
    /\ pc[s] = "idle"
    /\ fault' = [fault EXCEPT ![s] = ""]
    /\ raised' = [raised EXCEPT ![s] = None]
    /\ pc' = [pc EXCEPT ![s] = "open"]
    /\ cur' = [cur EXCEPT ![s] = [idx |-> Len(calls) + 1, data |-> outstr(s, rcv_time, msg)]]
    /\ calls' = Append(calls, [sink |-> s, rcv_time |-> rcv_time, msg |-> msg,
                               status |-> "running"])
    /\ UNCHANGED <<conf, handle, fs, fs0, log, factoryVars, meterVars>>

\* open(path, mode) / gzip.open(path, mode): mode 'w' truncates the file, 'a'
\* keeps it; the gzip file object starts its member with the header.
OpenFile(s, mode, gz) ==
    /\ pc[s] = "open"
    /\ handle' = [handle EXCEPT ![s] = [open |-> TRUE, path |-> conf[s].file, mode |-> mode,
                                         gz |-> gz, size |-> 0,
                                         buf |-> IF gz THEN GzipHeader ELSE ""]]
    /\ fs' = IF SubSeq(mode, 1, 1) = "w" THEN [fs EXCEPT ![conf[s].file] = ""] ELSE fs
    /\ pc' = [pc EXCEPT ![s] = "write"]
    /\ UNCHANGED <<conf, cur, raised, fault, fs0, log, calls, factoryVars, meterVars>>

\* Mutant: the log file is opened for writing, not for appending.
GaugePortStateLogger_open_w(s) ==
    /\ conf[s].type = "port_state"
    /\ OpenFile(s, "w", FALSE)

\* with open(self.conf.file, 'a') as logfile:
GaugePortStateLogger_open(s) ==
    /\ conf[s].type = "port_state"
    /\ OpenFile(s, "a", FALSE)

\* Mutant: the compressed file is opened with 'wt'.
GaugeFlowTableLogger_open_wt(s) ==
    /\ conf[s].type = "flow_table"
    /\ IF conf[s].compress THEN OpenFile(s, "wt", TRUE) ELSE OpenFile(s, "a", FALSE)

\* with gzip.open(filename, 'at') as outfile: / with open(filename, 'a') as outfile:
GaugeFlowTableLogger_open(s) ==
    /\ conf[s].type = "flow_table"
    /\ IF conf[s].compress THEN OpenFile(s, "at", TRUE) ELSE OpenFile(s, "a", FALSE)

\* The open fails: no file object exists and the error leaves _update.
OpenFails(s) ==
    /\ pc[s] = "open"
    /\ fault' = [fault EXCEPT ![s] = "open"]
    /\ Return(s, "OSError")
    /\ UNCHANGED <<conf, handle, fs, fs0, log, factoryVars, meterVars>>

\* Mutant: the first half of the data is flushed to the file by the write
\* itself, the rest when the file object is closed.
FileWrite_Flushed(s) ==
    /\ pc[s] = "write"
    /\ LET h == handle[s]
           data == IF h.gz THEN Deflate(cur[s].data) ELSE cur[s].data
           half == Len(h.buf \o data) \div 2
       IN /\ fs' = [fs EXCEPT ![h.path] = @ \o SubSeq(h.buf \o data, 1, half)]
          /\ handle' = [handle EXCEPT ![s].buf = SubSeq(h.buf \o data, half + 1, Len(h.buf \o data)),
                                      ![s].size = h.size + Len(cur[s].data)]
    /\ pc' = [pc EXCEPT ![s] = "close"]
    /\ UNCHANGED <<conf, cur, raised, fault, fs0, log, calls, factoryVars, meterVars>>

\* logfile.write(...) / outfile.write(outstr): the data, deflated by a gzip file
\* object, joins the buffer of the file object.
FileWrite(s) ==
    /\ pc[s] = "write"
    /\ LET h == handle[s]
           data == IF h.gz THEN Deflate(cur[s].data) ELSE cur[s].data
       IN handle' = [handle EXCEPT ![s].buf = h.buf \o data,
                                   ![s].size = h.size + Len(cur[s].data)]
    /\ pc' = [pc EXCEPT ![s] = "close"]
    /\ UNCHANGED <<conf, cur, raised, fault, fs, fs0, log, calls, factoryVars, meterVars>>

\* Mutant: no with statement, so a failed write leaves the file object open.
FileWriteFails_Leak(s) ==
    /\ pc[s] = "write"
    /\ fault' = [fault EXCEPT ![s] = "write"]
    /\ Return(s, "OSError")
    /\ UNCHANGED <<conf, handle, fs, fs0, log, factoryVars, meterVars>>

\* The write fails: the with statement closes the file object and the error
\* leaves _update.
FileWriteFails(s) ==
    /\ pc[s] = "write"
    /\ fault' = [fault EXCEPT ![s] = "write"]
    /\ handle' = [handle EXCEPT ![s] = NoHandle]
    /\ Return(s, "OSError")
    /\ UNCHANGED <<conf, fs, fs0, log, factoryVars, meterVars>>

\* The end of the with block: the file object is closed, a gzip file object
\* first ends its member with the trailer, and the buffer is appended to the file.
WithExit(s) ==
    /\ pc[s] = "close"
    /\ LET h == handle[s]
           bytes == IF h.gz THEN h.buf \o GzipTrailer(h.size) ELSE h.buf
       IN fs' = [fs EXCEPT ![h.path] = @ \o bytes]
    /\ handle' = [handle EXCEPT ![s] = NoHandle]
    /\ Return(s, None)
    /\ UNCHANGED <<conf, fault, fs0, log, factoryVars, meterVars>>

\* The close fails to flush: the file object is closed all the same and the
\* error leaves _update.
WithExitFails(s) ==
    /\ pc[s] = "close"
    /\ fault' = [fault EXCEPT ![s] = "close"]
    /\ handle' = [handle EXCEPT ![s] = NoHandle]
    /\ Return(s, "OSError")
    /\ UNCHANGED <<conf, fs, fs0, log, factoryVars, meterVars>>

(***************************************************************************)
(* Specifications                                                          *)
(***************************************************************************)
MaxCalls       == 2
MaxLogCalls    == 3
MaxFlowCalls   == 3
MaxSharedCalls == 3

\* A line an earlier run left in the log file.
EarlierLine == LogLine(rcv_time_str(0), dpid_log(1) \o " port 1 added")

SinksStart(sinks) ==
    /\ pc = [s \in sinks |-> "idle"]
    /\ cur = [s \in sinks |-> NoCur]
    /\ handle = [s \in sinks |-> NoHandle]
    /\ raised = [s \in sinks |-> None]
    /\ fault = [s \in sinks |-> ""]
    /\ fs = fs0
    /\ log = <<>>
    /\ calls = <<>>

\* The steps of the running calls, whichever sink makes them.
Open_Fails      == \E s \in Sinks : OpenFails(s)
Write           == \E s \in Sinks : FileWrite(s)
Write_Fails     == \E s \in Sinks : FileWriteFails(s)
Close           == \E s \in Sinks : WithExit(s)
Close_Fails     == \E s \in Sinks : WithExitFails(s)
PortState_Open  == \E s \in Sinks : GaugePortStateLogger_open(s)
FlowTable_Open  == \E s \in Sinks : GaugeFlowTableLogger_open(s)

\* One port state logger, with or without a file.
InitPortState ==
    /\ FactoryIdle
    /\ MeterIdle
    /\ \E file \in {None, LogPath} :
          conf = [s \in {"w1"} |-> [type |-> "port_state", file |-> file, compress |-> FALSE,
                                    dp_id |-> 1, dp_name |-> "dp1"]]
    /\ fs0 = [p \in Paths |-> EarlierLine]
    /\ SinksStart({"w1"})

PortState_Update ==
    /\ Len(calls) < MaxCalls
    /\ \E s \in Sinks, msg \in PortStatusMsgs : GaugePortStateLogger_update(s, Now, msg)

NextPortState ==
    \/ PortState_Update
    \/ PortState_Open
    \/ Open_Fails
    \/ Write
    \/ Write_Fails
    \/ Close
    \/ Close_Fails

SpecPortState == InitPortState /\ [][NextPortState]_vars

\* One port state logger without a file: every call is the whole handler.
InitPortStateLog ==
    /\ FactoryIdle
    /\ MeterIdle
    /\ conf = [s \in {"w1"} |-> [type |-> "port_state", file |-> None, compress |-> FALSE,
                                 dp_id |-> 1, dp_name |-> "dp1"]]
    /\ fs0 = [p \in Paths |-> EarlierLine]
    /\ SinksStart({"w1"})

PortStateLog_Update ==
    /\ Len(calls) < MaxLogCalls
    /\ \E s \in Sinks, msg \in PortStatusMsgs : GaugePortStateLogger_update(s, Now, msg)

NextPortStateLog == PortStateLog_Update

SpecPortStateLog == InitPortStateLog /\ [][NextPortStateLog]_vars

\* One flow table logger on an empty file, compressing or not.
InitFlowTable ==
    /\ FactoryIdle
    /\ MeterIdle
    /\ \E compress \in BOOLEAN :
          conf = [s \in {"w1"} |-> [type |-> "flow_table", file |-> LogPath,
                                    compress |-> compress, dp_id |-> 1, dp_name |-> "dp1"]]
    /\ fs0 = [p \in Paths |-> ""]
    /\ SinksStart({"w1"})

FlowTable_Update ==
    /\ Len(calls) < MaxFlowCalls
    /\ \E s \in Sinks, msg \in FlowStatsMsgs : GaugeFlowTableLogger_update(s, Now, msg)

NextFlowTable ==
    \/ FlowTable_Update
    \/ FlowTable_Open
    \/ Open_Fails
    \/ Write
    \/ Write_Fails
    \/ Close
    \/ Close_Fails

SpecFlowTable == InitFlowTable /\ [][NextFlowTable]_vars

\* Two port state loggers and a flow table logger, of three datapaths, all
\* configured with the same file; their calls interleave step by step.
SharedPortMsg == [reason |-> OFPPR_MODIFY, desc |-> [port_no |-> 3, state |-> OFPPS_LINK_DOWN]]
SharedFlowMsg == [jsondict |-> "{}"]

InitShared ==
    /\ FactoryIdle
    /\ MeterIdle
    /\ \E compress \in BOOLEAN :
          conf = [s \in {"w1", "w2", "w3"} |->
                    IF s = "w1" THEN [type |-> "port_state", file |-> LogPath,
                                      compress |-> FALSE, dp_id |-> 1, dp_name |-> "dp1"]
                    ELSE IF s = "w2" THEN [type |-> "port_state", file |-> LogPath,
                                           compress |-> FALSE, dp_id |-> 2, dp_name |-> "dp2"]
                    ELSE [type |-> "flow_table", file |-> LogPath,
                          compress |-> compress, dp_id |-> 3, dp_name |-> "dp3"]]
    /\ fs0 = [p \in Paths |-> ""]
    /\ SinksStart({"w1", "w2", "w3"})

Shared_PortState_Update ==
    /\ Len(calls) < MaxSharedCalls
    /\ \E s \in Sinks : GaugePortStateLogger_update(s, Now, SharedPortMsg)

Shared_FlowTable_Update ==
    /\ Len(calls) < MaxSharedCalls
    /\ \E s \in Sinks : GaugeFlowTableLogger_update(s, Now, SharedFlowMsg)

NextShared ==
    \/ Shared_PortState_Update
    \/ Shared_FlowTable_Update
    \/ PortState_Open
    \/ FlowTable_Open
    \/ Open_Fails
    \/ Write
    \/ Write_Fails
    \/ Close
    \/ Close_Fails

SpecShared == InitShared /\ [][NextShared]_vars

(***************************************************************************)
(* Properties                                                              *)
(***************************************************************************)
\* Whether part occurs in str.
Contains(str, part) ==
    \E i \in 1..(Len(str) - Len(part) + 1) : SubSeq(str, i, i + Len(part) - 1) = part

StartsWith(str, part) == Len(part) <= Len(str) /\ SubSeq(str, 1, Len(part)) = part
EndsWith(str, part) ==
    Len(part) <= Len(str) /\ SubSeq(str, Len(str) - Len(part) + 1, Len(str)) = part

\* The support matrix of the sink factory and the sink registered for a pair.
SupportMatrix ==
    { <<"port_state", "text">>, <<"port_state", "influx">>, <<"port_state", "prometheus">>,
      <<"port_stats", "text">>, <<"port_stats", "influx">>, <<"port_stats", "prometheus">>,
      <<"flow_table", "text">>, <<"flow_table", "influx">>, <<"flow_table", "prometheus">>,
      <<"meter_stats", "text">>, <<"meter_stats", "prometheus">> }

RegisteredSink(report_kind, backend_kind) ==
    "Gauge"
    \o (CASE report_kind = "port_state" -> "PortState"
          [] report_kind = "port_stats" -> "PortStats"
          [] report_kind = "flow_table" -> "FlowTable"
          [] report_kind = "meter_stats" -> "MeterStats")
    \o (CASE backend_kind = "text" -> "Logger"
          [] backend_kind = "influx" -> "InfluxDBLogger"
          [] backend_kind = "prometheus" -> "PrometheusPoller")

FactoryReturned == fret # Unset

\* C1: watcher_factory succeeds exactly for the pairs of the support matrix and
\* then returns the sink registered for the pair; for every other pair it
\* raises a configuration error and returns no sink.
C1_FactoryFollowsMatrix ==
    FactoryReturned =>
        IF <<gconf.type, gconf.db_type>> \in SupportMatrix
        THEN /\ fret = RegisteredSink(gconf.type, gconf.db_type)
             /\ fexc = NoExc
        ELSE /\ fret = None
             /\ fexc.cls = "InvalidConfigError"

C1_Witness ==
    /\ gconf = [type |-> "meter_stats", db_type |-> "text"]
    /\ fret = "GaugeMeterStatsLogger"

\* C2, as claimed: the description of the configuration error names the
\* report_kind and the backend_kind that were rejected.
C2_ErrorNamesPair ==
    fexc # NoExc =>
        /\ Contains(fexc.msg, gconf.type)
        /\ Contains(fexc.msg, gconf.db_type)

\* C2, amended: every rejected pair raises InvalidConfigError with the one fixed
\* description 'invalid water config', whatever the pair.
C2_ErrorIsFixedText ==
    (FactoryReturned /\ <<gconf.type, gconf.db_type>> \notin SupportMatrix) =>
        fexc = [cls |-> "InvalidConfigError", msg |-> "invalid water config"]

C2_Witness ==
    /\ gconf = [type |-> "meter_stats", db_type |-> "influx"]
    /\ fexc.msg = "invalid water config"

\* The message of the port-state sink for a report, before the device prefix.
LinkDownFlag(state) == (state % 2) = 1

ExpectedPortMessage(report) ==
    LET N == ToString(report.desc.port_no)
    IN CASE report.reason = OFPPR_ADD -> "port " \o N \o " added"
         [] report.reason = OFPPR_DELETE -> "port " \o N \o " deleted"
         [] report.reason = OFPPR_MODIFY /\ LinkDownFlag(report.desc.state) -> "port " \o N \o " down"
         [] report.reason = OFPPR_MODIFY /\ ~LinkDownFlag(report.desc.state) -> "port " \o N \o " up"
         [] OTHER -> "port " \o N \o " unknown state " \o ToString(report.reason)

DevicePrefix(s) == dpid_log(conf[s].dp_id) \o " "

\* C3: every port-state report renders exactly one message, fixed by the reason
\* and, for modified, by the link-down flag; an unknown reason code gives the
\* 'unknown state' message and does not make the update fail.
C3_PortStateMessage ==
    /\ Len(log) = Len(calls)
    /\ \A i \in 1..Len(calls) :
          /\ log[i].msg = DevicePrefix(calls[i].sink) \o ExpectedPortMessage(calls[i].msg)
          /\ (calls[i].status = "failed") => conf[calls[i].sink].file # None
    /\ \A s \in Sinks : (raised[s] # None) => (fault[s] # "")

C3_Witness ==
    \E i \in 1..Len(calls) :
        /\ calls[i].msg.reason = 3
        /\ calls[i].status = "ok"
        /\ log[i].msg = "DPID 1 (0x1) port 7 unknown state 3"

\* C4: for a meter report with at least one band, exactly five pairs go to the
\* shared formatter, in the fixed order and with the counters of the first
\* band, whatever bands follow it.
ExpectedStatPairs(stat) ==
    << [key |-> <<"flow", "count">>,           val |-> stat.flow_count],
       [key |-> <<"byte", "in", "count">>,     val |-> stat.byte_in_count],
       [key |-> <<"packet", "in", "count">>,   val |-> stat.packet_in_count],
       [key |-> <<"byte", "band", "count">>,   val |-> Head(stat.band_stats).byte_band_count],
       [key |-> <<"packet", "band", "count">>, val |-> Head(stat.band_stats).packet_band_count] >>

C4_MeterStatPairs ==
    (Len(mstat.band_stats) >= 1 /\ (mcall # <<>> \/ mexc # NoExc)) =>
        /\ mexc = NoExc
        /\ mcall = <<[delim |-> mdelim, stat_pairs |-> ExpectedStatPairs(mstat)]>>
        /\ Len(mcall[1].stat_pairs) = 5
        /\ \A later \in SeqsUpTo(BandStats, MaxBands - 1) :
              StatPairs([mstat EXCEPT !.band_stats = <<Head(mstat.band_stats)>> \o later])
                  = mcall[1].stat_pairs

C4_Witness ==
    /\ mcall # <<>>
    /\ Len(mstat.band_stats) >= 2
    /\ mstat.band_stats[1] = [byte_band_count |-> 5, packet_band_count |-> 100]
    /\ mstat.band_stats[2] = [byte_band_count |-> 100, packet_band_count |-> 5]
    /\ mcall[1].stat_pairs[4].val = 5
    /\ mcall[1].stat_pairs[5].val = 100

\* The calls that returned normally, in the order they were made.
OkCalls == {i \in 1..Len(calls) : calls[i].status = "ok"}

\* The block of the flow-table sink for a call.
ExpectedBlock(call) ==
    "---\n"
    \o "{\"time\": \"" \o rcv_time_str(call.rcv_time)
    \o "\", \"ref\": \"" \o conf[call.sink].dp_name \o "-flowtables"
    \o "\", \"msg\": " \o call.msg.jsondict \o "}"
    \o "\n"

RECURSIVE BlocksFrom(_)
BlocksFrom(i) ==
    IF i > Len(calls) THEN ""
    ELSE (IF calls[i].status = "ok" THEN ExpectedBlock(calls[i]) ELSE "") \o BlocksFrom(i + 1)

\* C5: on an initially empty file, the file written with compress=false is the
\* blocks of the calls in call order, and the file written with compress=true
\* decompresses to exactly that content.
C5_FlowTableFile ==
    \A s \in Sinks :
        IF conf[s].compress
        THEN /\ Gunzip(fs[conf[s].file]).ok
             /\ Gunzip(fs[conf[s].file]).data = BlocksFrom(1)
        ELSE fs[conf[s].file] = BlocksFrom(1)

C5_Witness ==
    /\ conf["w1"].compress
    /\ Cardinality(OkCalls) >= 2
    /\ pc["w1"] = "idle"
    /\ fs[LogPath] # BlocksFrom(1)
    /\ Gunzip(fs[LogPath]).data = BlocksFrom(1)

\* The record a call appends to the file of its sink.
Record(i) ==
    LET s == calls[i].sink
    IN IF conf[s].type = "port_state"
       THEN rcv_time_str(calls[i].rcv_time) \o "\t" \o DevicePrefix(s)
                \o ExpectedPortMessage(calls[i].msg) \o "\n"
       ELSE IF conf[s].compress
            THEN GzipHeader \o Deflate(ExpectedBlock(calls[i]))
                    \o GzipTrailer(Len(ExpectedBlock(calls[i])))
            ELSE ExpectedBlock(calls[i])

\* Whether content is the records of the calls of todo, each once, in some order.
RECURSIVE WholeRecords(_, _)
WholeRecords(content, todo) ==
    IF todo = {} THEN content = ""
    ELSE \E i \in todo :
            /\ StartsWith(content, Record(i))
            /\ WholeRecords(SubSeq(content, Len(Record(i)) + 1, Len(content)), todo \ {i})

LinesOf(str) ==
    LET ends == {i \in 1..Len(str) : SubSeq(str, i, i) = "\n"}
        begin(e) == IF \E j \in ends : j < e
                    THEN (CHOOSE j \in ends : j < e /\ \A k \in ends : k < e => k <= j) + 1
                    ELSE 1
    IN {SubSeq(str, begin(e), e) : e \in ends}

\* What was appended to the file at path since the first call.
Appended(path) == SubSeq(fs[path], Len(fs0[path]) + 1, Len(fs[path]))

RECURSIVE LinesFrom(_)
LinesFrom(i) ==
    IF i > Len(calls) THEN ""
    ELSE (IF calls[i].status = "ok"
          THEN rcv_time_str(calls[i].rcv_time) \o "\t" \o log[i].msg \o "\n"
          ELSE "") \o LinesFrom(i + 1)

\* C7: every port-state update logs the device-prefixed message at info level
\* exactly once, with or without a file; with a file it appends exactly one line
\* '<timestamp>\t<message>\n' after the earlier content; without a file it
\* touches no file; nothing else changes.
C7_PortStateEffects ==
    /\ Len(log) = Len(calls)
    /\ \A i \in 1..Len(log) :
          /\ log[i].level = "info"
          /\ log[i].sink = calls[i].sink
          /\ StartsWith(log[i].msg, DevicePrefix(calls[i].sink) \o "port ")
    /\ \A s \in Sinks :
          IF conf[s].file = None
          THEN /\ fs = fs0
               /\ ~handle[s].open
               /\ pc[s] = "idle"
          ELSE /\ fs[conf[s].file] = fs0[conf[s].file] \o LinesFrom(1)
               /\ \A p \in Paths \ {conf[s].file} : fs[p] = fs0[p]

C7_Witness ==
    /\ conf["w1"].file = LogPath
    /\ pc["w1"] = "idle"
    /\ fs0[LogPath] # ""
    /\ fs[LogPath] = fs0[LogPath]
                        \o "Jan 01 00:00:01\tDPID 1 (0x1) port 3 added\n"
                        \o "Jan 01 00:00:02\tDPID 1 (0x1) port 7 down\n"
    /\ Len(log) = 2

\* C8: with no file configured, two updates with the same report log the same
\* message, whatever reports came before or between them.
C8_SameReportSameMessage ==
    \A i, j \in 1..Len(calls) :
        (conf[calls[i].sink].file = None /\ calls[i].sink = calls[j].sink
            /\ calls[i].msg = calls[j].msg)
        => log[i].msg = log[j].msg

C8_Witness ==
    /\ Len(calls) = 3
    /\ calls[1].msg = calls[3].msg
    /\ calls[2].msg # calls[1].msg
    /\ calls[1].msg.reason = 3
    /\ log[1].msg = log[3].msg
    /\ log[2].msg # log[1].msg

\* C9: when an update of a port-state or flow-table sink has returned, normally
\* or through a failed open, write or close, the sink holds no open file; a file
\* is only ever opened for appending, by a running call; and a failed I/O
\* operation reaches the caller as an error.
C9_NoHandleAfterReturn ==
    \A s \in Sinks :
        /\ (pc[s] = "idle") => /\ ~handle[s].open
                               /\ (raised[s] = "OSError") <=> (fault[s] # "")
        /\ (pc[s] # "idle") => (fault[s] = "" /\ raised[s] = None)
        /\ handle[s].open => /\ pc[s] \in {"write", "close"}
                             /\ SubSeq(handle[s].mode, 1, 1) = "a"
                             /\ handle[s].path = conf[s].file

C9_Witness ==
    /\ pc["w3"] = "idle" /\ fault["w3"] = "write" /\ raised["w3"] = "OSError"
    /\ ~handle["w3"].open
    /\ pc["w1"] = "idle" /\ fault["w1"] = "close" /\ raised["w1"] = "OSError"
    /\ ~handle["w1"].open
    /\ handle["w2"].open

\* C10: the port-state message is logged before the file is opened: a call that
\* is at the file, or whose append failed, has its message in the process log,
\* once per call; and every line appended to the file carries a logged message.
C10_LoggedBeforeFile ==
    /\ Len(log) = Len(calls)
    /\ \A s \in Sinks :
          /\ (pc[s] # "idle") =>
                /\ cur[s].idx <= Len(log)
                /\ log[cur[s].idx].sink = s
                /\ EndsWith(cur[s].data, "\t" \o log[cur[s].idx].msg \o "\n")
          /\ (raised[s] = "OSError") =>
                /\ calls[Len(calls)].status = "failed"
                /\ log[Len(calls)].msg
                      = DevicePrefix(s) \o ExpectedPortMessage(calls[Len(calls)].msg)
    /\ \A line \in LinesOf(Appended(LogPath)) :
          \E j \in 1..Len(log) : EndsWith(line, "\t" \o log[j].msg \o "\n")

C10_Witness ==
    /\ conf["w1"].file = LogPath
    /\ raised["w1"] = "OSError"
    /\ fault["w1"] = "close"
    /\ Len(calls) = 2
    /\ calls[1].status = "ok"
    /\ Len(log) = 2
    /\ Cardinality(LinesOf(Appended(LogPath))) = 1

====
